---- MODULE Spec2Model ----
(***************************************************************************)
(* Model of closure/examples/main.py: the demo index handler of the        *)
(* gtv-ui-lib examples application (webapp on App Engine).                 *)
(*                                                                         *)
(* Strings that the code takes apart (file-system paths, URL paths) are    *)
(* sequences of tokens in which the separator "/" is a token of its own:   *)
(* '/app/main.py' is <<"/", "app", "/", "main.py">>.  Other strings are    *)
(* TLA+ strings.  The output of the template engine is a sequence of       *)
(* strings (its chunks).                                                   *)
(*                                                                         *)
(* Python values whose type matters (None, a dict, a list) are tagged      *)
(* records, so that an empty list and an empty dict are different values.  *)
(***************************************************************************)
EXTENDS Naturals, Sequences, FiniteSets

\* Number of request slots (requests served, or direct helper calls made).
MaxReqs == 2

Reqs == 1..MaxReqs

VARIABLES
  module_file,  \* __file__ of main.py (line 11), fixed when the module loads
  cwd,          \* the process's current working directory
  engine,       \* which template engine (stub) stands behind template.render
  pc,           \* per request: position of its handling
  req_method,   \* per request: HTTP method
  req_path,     \* per request: URL path
  args,         \* per request: arguments render_template was called with
  calls,        \* per request: calls of template.render made, in order
  ret,          \* per request: values template.render returned, in order
  response,     \* per request: the handler's response object
  heap,         \* list objects built by get, by object id
  demos_ref     \* per request: object id bound to the local `demos` of get

vars == <<module_file, cwd, engine, pc, req_method, req_path, args, calls,
          ret, response, heap, demos_ref>>

----------------------------------------------------------------------------
\* Python values

None == [type |-> "NoneType"]
Omitted == [type |-> "omitted"]
Dict(m) == [type |-> "dict", map |-> m]
List(s) == [type |-> "list", elems |-> s]
EmptyDict == Dict(<<>>)
EmptyList == List(<<>>)

\* bool(v) of Python for the values above
Truthy(v) ==
  CASE v.type = "NoneType" -> FALSE
    [] v.type = "dict" -> DOMAIN v.map # {}
    [] v.type = "list" -> Len(v.elems) > 0

----------------------------------------------------------------------------
\* posixpath on token strings

Sep == "/"

StartsWithSep(s) == Len(s) > 0 /\ s[1] = Sep
EndsWithSep(s) == Len(s) > 0 /\ s[Len(s)] = Sep

\* one step of the loop of os.path.join
join2(p, b) ==
  IF StartsWithSep(b) THEN b
  ELSE IF p = <<>> \/ EndsWithSep(p) THEN p \o b
  ELSE p \o <<Sep>> \o b

os_path_join(a, b, c) == join2(join2(a, b), c)

\* p.rfind('/') + 1
RECURSIVE RFindSep(_)
RFindSep(p) ==
  IF p = <<>> THEN 0
  ELSE IF p[Len(p)] = Sep THEN Len(p)
  ELSE RFindSep(SubSeq(p, 1, Len(p) - 1))

RECURSIVE RStripSep(_)
RStripSep(p) ==
  IF p # <<>> /\ p[Len(p)] = Sep THEN RStripSep(SubSeq(p, 1, Len(p) - 1))
  ELSE p

os_path_dirname(p) ==
  LET head == SubSeq(p, 1, RFindSep(p)) IN
  IF head # <<>> /\ (\E k \in 1..Len(head) : head[k] # Sep)
  THEN RStripSep(head)
  ELSE head

----------------------------------------------------------------------------
\* MainHandler.get: the demo list (lines 15-24)

\* The list with the demo that the TODO of line 23 announces.
DemoListWithInput ==
  << [title |-> "Component", template |-> "component.html"],
     [title |-> "Button", template |-> "buttons.html"],
     [title |-> "Link", template |-> "link.html"],
     [title |-> "Container", template |-> "containers.html"],
     [title |-> "Grid", template |-> "grid.html"],
     [title |-> "Lightbox", template |-> "lightbox.html"],
     [title |-> "Tab Container", template |-> "tabcontainer.html"],
     [title |-> "Input", template |-> "input.html"],
     [title |-> "AJAX", template |-> "ajax.html"] >>

DemoList ==
  << [title |-> "Component", template |-> "component.html"],
     [title |-> "Button", template |-> "buttons.html"],
     [title |-> "Link", template |-> "link.html"],
     [title |-> "Container", template |-> "containers.html"],
     [title |-> "Grid", template |-> "grid.html"],
     [title |-> "Lightbox", template |-> "lightbox.html"],
     [title |-> "Tab Container", template |-> "tabcontainer.html"],
     [title |-> "AJAX", template |-> "ajax.html"] >>

\* Object ids of the lists get builds; Unallocated marks an id not yet in use.
ObjIds == 1..MaxReqs
NoRef == 0
Unallocated == "unallocated"

Allocated(h) == {o \in ObjIds : h[o] # Unallocated}

\* A get that keeps the first list it built and hands it out again.
BuildDemosCached(h, r) ==
  IF Allocated(h) # {}
  THEN [heap |-> h, ref |-> CHOOSE o \in Allocated(h) : TRUE]
  ELSE [heap |-> [h EXCEPT ![r] = DemoList], ref |-> r]

\* Lines 15-24: a new list object is built by every call and bound to the
\* local `demos`; the call of request r gets the object id r.
BuildDemos(h, r) == [heap |-> [h EXCEPT ![r] = DemoList], ref |-> r]

\* Line 25, first argument.
GetTemplateFile == <<"main.html">>

GetTemplateValuesWithTitle(d) == Dict([demos |-> d, title |-> <<>>])

\* Line 25, second argument: {'demos': demos}
GetTemplateValues(d) == Dict([demos |-> d])

----------------------------------------------------------------------------
\* MainHandler.render_template (lines 8-12)

\* Line 8: the parameter template_values, with its default None.
BindTemplateValues(tv) == IF tv = Omitted THEN None ELSE tv

IsNone(v) == v = None

\* Line 9: `not template_values`
IsFalsy(v) == ~Truthy(v)

DefaultTemplateValuesDict == EmptyDict

\* Line 10: template_values = []
DefaultTemplateValues == EmptyList

\* Lines 9-10: the value handed to template.render
PassedValues(tv) ==
  LET v == BindTemplateValues(tv) IN
  IF IsFalsy(v) THEN DefaultTemplateValues ELSE v

\* Line 11: os.path.join(os.path.dirname(__file__), 'templates', template_file)
TemplatePath(file, template_file) ==
  os_path_join(os_path_dirname(file), <<"templates">>, template_file)

\* Lines 9-12 up to the call of template.render: the call handed over.
RenderCall(file, template_file, tv, ref) ==
  [path |-> TemplatePath(file, template_file),
   values |-> PassedValues(tv),
   ref |-> ref]

ResponseWriteStripped(resp, s) ==
  [resp EXCEPT !.body = Append(@, SubSeq(s, 1, Len(s) - 1))]

\* Line 12: self.response.out.write(...)
ResponseWrite(resp, s) == [resp EXCEPT !.body = Append(@, s)]

----------------------------------------------------------------------------
\* The rendering collaborator template.render(path, values): external, so
\* one of several engines, fixed when the process starts.

Engines == {"echo", "const", "loader", "error", "mutating"}

RECURSIVE Titles(_)
Titles(d) == IF d = <<>> THEN <<>> ELSE <<Head(d).title>> \o Titles(Tail(d))

\* The stub that echoes the variables it received.
Echo(v) ==
  CASE v.type = "list" -> <<"[]">>
    [] v.type = "dict" ->
         IF "demos" \in DOMAIN v.map THEN Titles(v.map["demos"]) ELSE <<"{}">>

\* The template files deployed beside the handler.
InstalledTemplates(file) ==
  {os_path_dirname(file) \o <<Sep, "templates", Sep, "main.html">>}

PopLast(s) == IF s = <<>> THEN s ELSE SubSeq(s, 1, Len(s) - 1)

\* Outcome of one call: ok (returned) or not (raised), the string returned,
\* and the heap afterwards (an engine may change the list it was given).
template_render(e, call, file, h) ==
  CASE e = "echo" -> [ok |-> TRUE, out |-> Echo(call.values), heap |-> h]
    [] e = "const" -> [ok |-> TRUE, out |-> <<"<html>">>, heap |-> h]
    [] e = "loader" ->
         [ok |-> call.path \in InstalledTemplates(file),
          out |-> <<"<html>", "main">>, heap |-> h]
    [] e = "error" -> [ok |-> FALSE, out |-> <<>>, heap |-> h]
    [] e = "mutating" ->
         [ok |-> TRUE, out |-> <<"<html>">>,
          heap |-> IF call.ref = NoRef THEN h
                   ELSE [h EXCEPT ![call.ref] = PopLast(@)]]

----------------------------------------------------------------------------
\* The application (lines 28-31) and the framework's dispatch

url_mapping_with_demo ==
  << [pattern |-> <<Sep>>, handler |-> "MainHandler"],
     [pattern |-> <<Sep, "demo">>, handler |-> "MainHandler"] >>

\* Line 29: [('/', MainHandler)]
url_mapping == << [pattern |-> <<Sep>>, handler |-> "MainHandler"] >>

\* The methods MainHandler implements itself (line 14); the base class
\* answers the others with 405.
HandlerMethods == {"GET"}

\* WSGIApplication matches the whole path against each pattern.
Routed(p) == \E i \in 1..Len(url_mapping) : url_mapping[i].pattern = p

DefaultResponse ==
  [status |-> 200,
   headers |-> {<<"Content-Type", "text/html; charset=utf-8">>,
                <<"Cache-Control", "no-cache">>},
   body |-> <<>>]

\* The environment's inputs
ModuleFiles == {<<Sep, "app", Sep, "main.py">>,
                <<Sep, "base", Sep, "closure", Sep, "examples", Sep, "main.py">>}
WorkingDirs == {<<Sep, "app">>, <<Sep, "tmp">>}
Methods == {"GET", "POST", "HEAD"}
Paths == {<<Sep>>, <<Sep, "demo">>, <<Sep, "templates", Sep, "main.html">>}
TemplateFiles == {<<"main.html">>, <<"..", Sep, "main.py">>,
                  <<Sep, "etc", Sep, "passwd">>}
TemplateValues ==
  {Omitted, EmptyDict, EmptyList, Dict([demos |-> DemoList]),
   List(<<[title |-> "Grid", template |-> "grid.html"]>>)}

NoArgs == [given |-> FALSE]

Init ==
  /\ module_file \in ModuleFiles
  /\ cwd \in WorkingDirs
  /\ engine \in Engines
  /\ pc = [r \in Reqs |-> "idle"]
  /\ req_method = [r \in Reqs |-> "none"]
  /\ req_path = [r \in Reqs |-> <<>>]
  /\ args = [r \in Reqs |-> NoArgs]
  /\ calls = [r \in Reqs |-> <<>>]
  /\ ret = [r \in Reqs |-> <<>>]
  /\ response = [r \in Reqs |-> DefaultResponse]
  /\ heap = [o \in ObjIds |-> Unallocated]
  /\ demos_ref = [r \in Reqs |-> NoRef]

\* The process changes its working directory (os.chdir by other code).
Chdir(d) ==
  /\ d # cwd
  /\ cwd' = d
  /\ UNCHANGED <<module_file, engine, pc, req_method, req_path, args, calls,
                 ret, response, heap, demos_ref>>

\* A request arrives.
Receive(r, m, p) ==
  /\ pc[r] = "idle"
  /\ req_method' = [req_method EXCEPT ![r] = m]
  /\ req_path' = [req_path EXCEPT ![r] = p]
  /\ pc' = [pc EXCEPT ![r] = "received"]
  /\ UNCHANGED <<module_file, cwd, engine, args, calls, ret, response, heap,
                 demos_ref>>

\* WSGIApplication: no route, 404; a method the handler does not implement,
\* 405; otherwise the handler's get is called.
Dispatch(r) ==
  /\ pc[r] = "received"
  /\ IF ~Routed(req_path[r])
     THEN /\ response' = [response EXCEPT ![r].status = 404]
          /\ pc' = [pc EXCEPT ![r] = "rejected"]
     ELSE IF req_method[r] \notin HandlerMethods
     THEN /\ response' = [response EXCEPT ![r].status = 405]
          /\ pc' = [pc EXCEPT ![r] = "rejected"]
     ELSE /\ pc' = [pc EXCEPT ![r] = "get"]
          /\ UNCHANGED response
  /\ UNCHANGED <<module_file, cwd, engine, req_method, req_path, args, calls,
                 ret, heap, demos_ref>>

\* MainHandler.get (lines 14-25) into render_template (lines 8-12), up to
\* the point where template.render is entered.
Get(r) ==
  /\ pc[r] = "get"
  /\ LET b == BuildDemos(heap, r)
         tv == GetTemplateValues(b.heap[b.ref])
     IN /\ heap' = b.heap
        /\ demos_ref' = [demos_ref EXCEPT ![r] = b.ref]
        /\ args' = [args EXCEPT ![r] =
                      [given |-> TRUE, file |-> GetTemplateFile, values |-> tv]]
        /\ calls' = [calls EXCEPT ![r] =
                      Append(@, RenderCall(module_file, GetTemplateFile, tv, b.ref))]
  /\ pc' = [pc EXCEPT ![r] = "rendering"]
  /\ UNCHANGED <<module_file, cwd, engine, req_method, req_path, ret, response>>

\* render_template called directly (lines 8-12), up to the point where
\* template.render is entered.
CallRenderTemplate(r, tf, tv) ==
  /\ pc[r] = "idle"
  /\ args' = [args EXCEPT ![r] = [given |-> TRUE, file |-> tf, values |-> tv]]
  /\ calls' = [calls EXCEPT ![r] = Append(@, RenderCall(module_file, tf, tv, NoRef))]
  /\ pc' = [pc EXCEPT ![r] = "rendering"]
  /\ UNCHANGED <<module_file, cwd, engine, req_method, req_path, ret, response,
                 heap, demos_ref>>

LastCall(r) == calls[r][Len(calls[r])]

\* template.render returns; line 12 writes what it returned.
RenderReturn(r) ==
  /\ pc[r] = "rendering"
  /\ LET res == template_render(engine, LastCall(r), module_file, heap)
     IN /\ res.ok
        /\ heap' = res.heap
        /\ ret' = [ret EXCEPT ![r] = Append(@, res.out)]
        /\ response' = [response EXCEPT ![r] = ResponseWrite(@, res.out)]
  /\ pc' = [pc EXCEPT ![r] = "done"]
  /\ UNCHANGED <<module_file, cwd, engine, req_method, req_path, args, calls,
                 demos_ref>>

\* A render_template that catches the failure and answers with a message.
RenderRaiseCaught(r) ==
  /\ pc[r] = "rendering"
  /\ ~template_render(engine, LastCall(r), module_file, heap).ok
  /\ response' = [response EXCEPT ![r] = ResponseWrite(@, <<"error">>)]
  /\ pc' = [pc EXCEPT ![r] = "done"]
  /\ UNCHANGED <<module_file, cwd, engine, req_method, req_path, args, calls,
                 ret, heap, demos_ref>>

\* template.render raises: nothing in lines 8-12 or 14-25 catches, so the
\* exception leaves render_template and get.
RenderRaise(r) ==
  /\ pc[r] = "rendering"
  /\ ~template_render(engine, LastCall(r), module_file, heap).ok
  /\ pc' = [pc EXCEPT ![r] = "raised"]
  /\ UNCHANGED <<module_file, cwd, engine, req_method, req_path, args, calls,
                 ret, response, heap, demos_ref>>

\* The application serving requests.
Next ==
  \/ \E d \in WorkingDirs : Chdir(d)
  \/ \E r \in Reqs, m \in Methods, p \in Paths : Receive(r, m, p)
  \/ \E r \in Reqs : Dispatch(r)
  \/ \E r \in Reqs : Get(r)
  \/ \E r \in Reqs : RenderReturn(r)
  \/ \E r \in Reqs : RenderRaise(r)

Spec == Init /\ [][Next]_vars

\* The helper called directly, with every kind of argument.
HelperNext ==
  \/ \E d \in WorkingDirs : Chdir(d)
  \/ \E r \in Reqs, tf \in TemplateFiles, tv \in TemplateValues :
       CallRenderTemplate(r, tf, tv)
  \/ \E r \in Reqs : RenderReturn(r)
  \/ \E r \in Reqs : RenderRaise(r)

HelperSpec == Init /\ [][HelperNext]_vars

----------------------------------------------------------------------------
\* Properties

\* The request's handling has entered template.render.
Called(r) == Len(calls[r]) >= 1

Pairs(d) == [i \in 1..Len(d) |-> <<d[i].title, d[i].template>>]

EightPairs ==
  << <<"Component", "component.html">>, <<"Button", "buttons.html">>,
     <<"Link", "link.html">>, <<"Container", "containers.html">>,
     <<"Grid", "grid.html">>, <<"Lightbox", "lightbox.html">>,
     <<"Tab Container", "tabcontainer.html">>, <<"AJAX", "ajax.html">> >>

EightTitles ==
  <<"Component", "Button", "Link", "Container", "Grid", "Lightbox",
    "Tab Container", "AJAX">>

\* C1: every GET handled by MainHandler.get hands the rendering collaborator
\* a `demos` value of exactly the eight (title, template) pairs, in order;
\* with the echoing stub the response body lists exactly the eight titles,
\* in order.
C1_EightDemosInOrder ==
  \A r \in Reqs : Called(r) =>
    /\ \A i \in 1..Len(calls[r]) :
         /\ calls[r][i].values.type = "dict"
         /\ "demos" \in DOMAIN calls[r][i].values.map
         /\ Pairs(calls[r][i].values.map["demos"]) = EightPairs
    /\ (pc[r] = "done" /\ engine = "echo") => response[r].body = <<EightTitles>>

C1_Witness ==
  \E r \in Reqs :
    pc[r] = "done" /\ engine = "echo" /\ response[r].body = <<EightTitles>>

\* C2: every call of MainHandler.get invokes the rendering collaborator
\* exactly once, with main.html under the templates directory beside the
\* handler, and with a mapping whose only key is `demos`.
C2_OneCallMainHtmlDemosOnly ==
  \A r \in Reqs :
    IF pc[r] \in {"rendering", "done", "raised"}
    THEN /\ Len(calls[r]) = 1
         /\ calls[r][1].path =
              os_path_dirname(module_file) \o <<Sep, "templates", Sep, "main.html">>
         /\ calls[r][1].values.type = "dict"
         /\ DOMAIN calls[r][1].values.map = {"demos"}
    ELSE calls[r] = <<>>

C2_Witness ==
  \E r \in Reqs : pc[r] = "done" /\ req_method[r] = "GET" /\ Len(calls[r]) = 1

\* C3: render_template called without template_values reaches the
\* collaborator (the helper does not raise), and hands it the same path and
\* variables, and writes the same to the response, as the same call made
\* with an empty mapping.
C3_OmittedAsEmptyMapping ==
  \A a, b \in Reqs :
    (/\ args[a].given /\ args[b].given
     /\ args[a].values = Omitted /\ args[b].values = EmptyDict
     /\ args[a].file = args[b].file)
    => /\ Len(calls[a]) = 1
       /\ calls[a] = calls[b]
       /\ (pc[a] = "done" /\ pc[b] = "done") => response[a] = response[b]
       /\ (pc[a] = "raised") => pc[b] # "done"
       /\ (pc[a] = "done") => pc[b] # "raised"

C3_Witness ==
  \E a, b \in Reqs :
    /\ args[a].given /\ args[b].given
    /\ args[a].values = Omitted /\ args[b].values = EmptyDict
    /\ args[a].file = args[b].file
    /\ pc[a] = "done" /\ pc[b] = "done"
    /\ response[a].body # <<>>

\* C4: render_template called with no template_values hands the collaborator
\* an empty mapping.
C4_OmittedPassesEmptyMapping ==
  \A r \in Reqs :
    (args[r].given /\ args[r].values = Omitted)
    => calls[r][1].values = EmptyDict

\* C5: for every template file name and every working directory, the path
\* handed to the collaborator is <directory of main.py>/templates/<name>.
C5_PathUnderTemplatesDir ==
  \A r \in Reqs :
    args[r].given
    => calls[r][1].path =
         os_path_dirname(module_file) \o <<Sep, "templates", Sep>> \o args[r].file

\* C6: on a successful render the handler has written to the response body
\* exactly once, exactly the string the collaborator returned, and has left
\* status and headers as they were; before that it has written nothing.
C6_WritesReturnedStringOnce ==
  \A r \in Reqs :
    /\ pc[r] = "done" =>
         /\ Len(ret[r]) = 1
         /\ response[r].body = <<ret[r][1]>>
         /\ response[r].status = DefaultResponse.status
         /\ response[r].headers = DefaultResponse.headers
    /\ pc[r] \in {"get", "rendering", "raised"} => response[r] = DefaultResponse

C6_Witness ==
  \E r \in Reqs :
    pc[r] = "done" /\ Len(ret[r]) = 1 /\ ret[r][1] # <<>>
    /\ response[r].body = <<ret[r][1]>>

\* The collaborator fails on the call request r made.
RenderFails(r) ==
  ~template_render(engine, calls[r][1], module_file, heap).ok

\* C7: when the rendering collaborator fails during a GET, the failure
\* leaves MainHandler.get uncaught, the collaborator was called once (no
\* retry), and nothing has been written to the response body.
C7_FailurePropagates ==
  \A r \in Reqs :
    (Called(r) /\ pc[r] # "rendering" /\ RenderFails(r))
    => /\ pc[r] = "raised"
       /\ Len(calls[r]) = 1
       /\ ret[r] = <<>>
       /\ response[r].body = <<>>

C7_Witness ==
  \E r \in Reqs : pc[r] = "raised" /\ req_method[r] = "GET" /\ RenderFails(r)

\* C8: whatever the order and interleaving of GET requests, every request
\* hands the collaborator the same path and the same eight-entry demos list,
\* in a list object of its own: no two requests share a list, and a request
\* whose rendering is under way finds its list as it built it.
C8_StatelessFreshList ==
  \A r \in Reqs : Called(r) =>
    /\ Len(calls[r][1].values.map["demos"]) = 8
    /\ demos_ref[r] # NoRef
    /\ pc[r] = "rendering" => heap[demos_ref[r]] = calls[r][1].values.map["demos"]
    /\ \A q \in Reqs : (q # r /\ Called(q)) =>
         /\ calls[q][1].path = calls[r][1].path
         /\ calls[q][1].values = calls[r][1].values
         /\ demos_ref[q] # demos_ref[r]

C8_Witness ==
  \E r, q \in Reqs :
    /\ r # q /\ pc[r] = "done" /\ pc[q] = "rendering"
    /\ engine = "mutating"
    /\ Len(heap[demos_ref[r]]) = 7
    /\ Len(heap[demos_ref[q]]) = 8

\* The request has reached MainHandler.get or the rendering behind it.
ReachedHandler(r) ==
  pc[r] \in {"get", "rendering", "done", "raised"} \/ Called(r)

\* C9: the application registers one route; only a request with path `/`
\* and method GET reaches the demo-list rendering, every other request is
\* turned away without it.
C9_OnlyGetRoot ==
  /\ Len(url_mapping) = 1
  /\ \A r \in Reqs :
       /\ ReachedHandler(r) => (req_path[r] = <<Sep>> /\ req_method[r] = "GET")
       /\ pc[r] = "rejected" =>
            /\ req_path[r] # <<Sep>> \/ req_method[r] # "GET"
            /\ calls[r] = <<>>
            /\ response[r].body = <<>>

C9_Witness ==
  \E r, q \in Reqs :
    /\ pc[r] = "rejected" /\ req_path[r] # <<Sep>> /\ req_method[r] = "GET"
    /\ pc[q] = "rejected" /\ req_path[q] = <<Sep>> /\ req_method[q] # "GET"

\* A supplied argument that Python takes as true: a non-empty dict or list.
SuppliedNonEmpty(tv) ==
  \/ tv.type = "dict" /\ DOMAIN tv.map # {}
  \/ tv.type = "list" /\ tv.elems # <<>>

\* C10: render_template hands template_values on unchanged when it is
\* truthy, and hands on an empty list when it is falsy: omitted, or an
\* explicitly passed empty mapping.
C10_TruthyUnchangedFalsyEmptyList ==
  \A r \in Reqs : args[r].given =>
    IF SuppliedNonEmpty(args[r].values)
    THEN calls[r][1].values = args[r].values
    ELSE calls[r][1].values = EmptyList

C10_Witness ==
  \E r, q \in Reqs :
    /\ args[r].given /\ args[r].values = EmptyDict
    /\ calls[r][1].values = EmptyList
    /\ args[q].given /\ SuppliedNonEmpty(args[q].values)
    /\ calls[q][1].values = args[q].values

====
